---- MODULE Spec2Model ----
(***************************************************************************)
(* Paper collaboration platform: the persisted entities (papers,           *)
(* collaborator links, interest links, reviews), the cookie session, and   *)
(* the request handlers of routes/auth.py, routes/papers.py,               *)
(* routes/collaborators.py and routes/interests.py.                        *)
(*                                                                         *)
(* A handler is one action, except where the code itself leaves a state    *)
(* other requests can observe in the middle of a request: create_paper     *)
(* commits the paper row and then, separately, the creator's collaborator  *)
(* row; submit_review reads the existing review and then inserts.  Those   *)
(* two handlers are split at that point and the                            *)
(* request waits in a slot of inflight in between.                         *)
(***************************************************************************)
EXTENDS Integers, FiniteSets, Sequences, Bags, TLC

(* ------------------------------------------------------------------ *)
(* Universes                                                           *)
(* ------------------------------------------------------------------ *)

\* Registered authors (rows of users) and companies (rows of companies).
Authors == {"a1", "a2"}
Companies == {"c1"}
\* Papers the model lets create_paper insert (the table itself is unbounded).
MaxPapers == 1
\* Identifiers create_paper can draw (uuid4: never one already in use).
PaperIds == 1..MaxPapers

\* Requests that may be between their two halves at once.
MaxInFlight == 1
\* download_count is unbounded in the code; the model stops counting here.
MaxDownloads == 1
\* Reviews the table may hold in the model (the table itself is unbounded).
MaxReviews == 3
\* Requests between their halves at once where review submissions are raced.
RaceInFlight == 2
\* download_paper requests made where downloads are raced.
MaxRacedDownloads == 3

NULL == "NULL"
\* title form field: of create_paper, and of update_paper (NULL: none given).
CreateTitles == {"T1"}
UpdateTitles == {NULL, "T2"}
Subjects == {"S1"}
\* request.form.get('rating', type=int): None for a missing or non-integer field.
\* <<>> stands for that None, <<n>> for the integer n.
RatingInputs == {<<>>, <<0>>, <<1>>, <<5>>, <<6>>}
\* request.files.get('pdf'): no (allowed) file, one the store takes, one it refuses.
PdfInputs == {"none", "uploaded", "upload_fails"}
\* collaborator_email form field: an author's email, a company's, or none.
EmailInputs == Authors \cup Companies \cup {NULL}
\* collaborator_id URL segment of remove_collaborator.
TargetInputs == Authors \cup Companies

\* Papers in the database the scores are computed over.
MaxScorePapers == 2
ScorePaperIds == 1..MaxScorePapers
\* limit of get_recommended_papers (the route passes 20).
MaxLimit == 2
\* research_interests, subject, field_of_research and years_of_experience
\* (0..70 at registration) the scores are computed over.
ScoreInterests == {NULL, "ml", "ml-x", "bio,"}
ScoreSubjects == {NULL, "ai ml", "bio"}
ScoreFields == {"", "xml", "bio,ml"}
ScoreYears == {0, 10, 40}
\* Companies holding an interest link on the paper whose business score is computed.
MaxInterested == 12
\* Their ids, in the order in which they took interest.
InterestedIds ==
    <<"c1", "c2", "c3", "c4", "c5", "c6", "c7", "c8", "c9", "c10",
      "c11", "c12", "c13", "c14">>
\* research_interests form field of update_research_interests.
InterestInputs == {"", " ml "}
\* limit=20 of the recommended_papers route.
RecommendationLimit == 20

(* ------------------------------------------------------------------ *)
(* Text: a str value is named by its content, Chars gives its          *)
(* characters, and the str methods the code calls work on those        *)
(* ------------------------------------------------------------------ *)

Chars ==
    [t \in {""} |-> <<>>]
    @@ ("ml" :> <<"m", "l">>)
    @@ (" ml " :> <<" ", "m", "l", " ">>)
    @@ ("ML" :> <<"M", "L">>)
    @@ ("ai" :> <<"a", "i">>)
    @@ ("bio" :> <<"b", "i", "o">>)
    @@ ("xml" :> <<"x", "m", "l">>)
    @@ ("ml,ai" :> <<"m", "l", ",", "a", "i">>)
    @@ ("bio,ml" :> <<"b", "i", "o", ",", "m", "l">>)
    @@ ("bio," :> <<"b", "i", "o", ",">>)
    @@ ("ai ml" :> <<"a", "i", " ", "m", "l">>)
    @@ ("ml-x" :> <<"m", "l", "-", "x">>)
    @@ ("S1" :> <<"S", "1">>)

\* The str that has the characters t.
StringOf(t) == CHOOSE n \in DOMAIN Chars : Chars[n] = t

\* `if value:` of an optional str column: neither None nor ''.
Truthy(v) == v # NULL /\ Chars[v] # <<>>

\* str.lower()
LowerChar(ch) ==
    IF ch = "M" THEN "m" ELSE IF ch = "L" THEN "l" ELSE IF ch = "S" THEN "s" ELSE ch

Lower(t) == [i \in 1..Len(t) |-> LowerChar(t[i])]

\* str.strip()
RECURSIVE LStrip(_)
LStrip(t) == IF t # <<>> /\ t[1] = " " THEN LStrip(Tail(t)) ELSE t

RECURSIVE RStrip(_)
RStrip(t) ==
    IF t # <<>> /\ t[Len(t)] = " " THEN RStrip(SubSeq(t, 1, Len(t) - 1)) ELSE t

Strip(t) == RStrip(LStrip(t))

\* str.replace(old, new) for single characters
Replace(t, old, new) == [i \in 1..Len(t) |-> IF t[i] = old THEN new ELSE t[i]]

\* str.split(sep): the pieces between the separators, empty ones kept.
RECURSIVE Split(_, _)
Split(t, sep) ==
    IF \A i \in 1..Len(t) : t[i] # sep
    THEN <<t>>
    ELSE LET i == CHOOSE j \in 1..Len(t) :
                      t[j] = sep /\ \A k \in 1..(j - 1) : t[k] # sep
         IN  <<SubSeq(t, 1, i - 1)>> \o Split(SubSeq(t, i + 1, Len(t)), sep)

\* set(str.split()): the words between runs of blanks.
WordSet(t) == {w \in {Split(t, " ")[i] : i \in 1..Len(Split(t, " "))} : w # <<>>}

\* sub in t
Contains(sub, t) ==
    \E i \in 0..(Len(t) - Len(sub)) : SubSeq(t, i + 1, i + Len(sub)) = sub

VARIABLES
    users,       \* users table: author id -> [field_of_research, years_of_experience]
    companies,   \* companies table: company id -> [research_interests]
    papers,      \* papers table: paper_id -> row
    collabs,     \* paper_collaborators table: set of <<paper_id, user_id>>
    interests,   \* paper_interests table: <<paper_id, company_id>> -> row
    reviews,     \* reviews table: bag of rows (the uuid primary key left out)
    storage,     \* object store bucket 'papers': set of stored file paths
    session,     \* the browser's Flask session: [user_id, user_type]
    inflight,    \* per slot: Idle or the request that is between its halves
    resp         \* the last handler step: [op, paper, msg], paper the id it
                 \* addressed (0: none) and msg the flash it
                 \* ended with ("pending": the request is still running)

db == <<papers, collabs, interests, reviews>>
accounts == <<users, companies>>
vars == <<users, companies, papers, collabs, interests, reviews, storage, session,
          inflight, resp>>

(* ------------------------------------------------------------------ *)
(* models.py                                                           *)
(* ------------------------------------------------------------------ *)

\* User(field_of_research, years_of_experience), the columns the scores read.
User(field_of_research, years_of_experience) ==
    [field_of_research |-> field_of_research,
     years_of_experience |-> years_of_experience]

\* Company(research_interests), the column the scores read.
Company(research_interests) == [research_interests |-> research_interests]

PaperStatus == {"draft", "published"}

\* Paper(id, title, subject, status, file_path, created_by); download_count default 0.
\* A file path is <<>> (NULL) or <<paper_id, ".pdf">>.
Paper(title, subject, file_path, created_by) ==
    [title |-> title, subject |-> subject, status |-> "draft",
     file_path |-> file_path, download_count |-> 0, created_by |-> created_by]

\* PaperInterest(paper_id, company_id) with the column defaults.
PaperInterest ==
    [relevance_score |-> 0, business_relevance_score |-> 0,
     is_business_critical |-> FALSE]

\* Review(paper_id, user_id, company_id, rating): exactly one reviewer column set.
Review(paper_id, user_type, user_id, rating) ==
    [paper_id |-> paper_id,
     user_id |-> IF user_type = "author" THEN user_id ELSE NULL,
     company_id |-> IF user_type = "author" THEN NULL ELSE user_id,
     rating |-> rating]

\* rating_check and review_author_or_company_check.
ReviewChecksOk(r) ==
    /\ r.rating >= 1 /\ r.rating <= 5
    /\ \/ (r.user_id # NULL /\ r.company_id = NULL)
       \/ (r.user_id = NULL /\ r.company_id # NULL)

\* Mutant of ReviewUniqueOk: the reviews table without its unique constraints.
ReviewUniqueOff(r) == TRUE

\* Mutant of ReviewUniqueOk: only unique_user_review is declared.
ReviewUniqueUserOnly(r) ==
    \A q \in BagToSet(reviews) :
        q.paper_id = r.paper_id => ~(r.user_id # NULL /\ q.user_id = r.user_id)

\* unique_user_review and unique_company_review: a NULL column never collides.
ReviewUniqueOk(r) ==
    \A q \in BagToSet(reviews) :
        q.paper_id = r.paper_id =>
            /\ ~(r.user_id # NULL /\ q.user_id = r.user_id)
            /\ ~(r.company_id # NULL /\ q.company_id = r.company_id)

ReviewCount == BagCardinality(reviews)

(* ------------------------------------------------------------------ *)
(* Queries the handlers share                                          *)
(* ------------------------------------------------------------------ *)

PaperExists(p) == p \in DOMAIN papers

\* query(PaperCollaborator).filter_by(paper_id, user_id).first()
IsCollaborator(p, u) == <<p, u>> \in collabs

\* query(PaperInterest).filter_by(paper_id, company_id).first()
HasInterest(p, c) == <<p, c>> \in DOMAIN interests

\* query(Review).filter_by(paper_id, user_id | company_id).first()
ExistingReview(p, user_type, u) ==
    \E q \in BagToSet(reviews) :
        /\ q.paper_id = p
        /\ IF user_type = "author" THEN q.user_id = u ELSE q.company_id = u

UnusedPaperIds == PaperIds \ DOMAIN papers

\* uuid.uuid4(): an identifier no row uses yet (the model takes them in order).
FreshPaperId == CHOOSE p \in UnusedPaperIds : \A q \in UnusedPaperIds : p <= q

Idle == [pc |-> "idle"]
Slots == DOMAIN inflight
IdleSlots == {w \in Slots : inflight[w] = Idle}
FreeSlot == CHOOSE w \in IdleSlots : \A v \in IdleSlots : w <= v

Respond(op, p, msg) == resp' = [op |-> op, paper |-> p, msg |-> msg]

(* ------------------------------------------------------------------ *)
(* routes/auth.py                                                      *)
(* ------------------------------------------------------------------ *)

\* session.clear(): no 'user_id' key.
NoSession == [user_id |-> NULL, user_type |-> NULL]

UserType(u) == IF u \in Authors THEN "author" ELSE "company"

\* login_required: NULL lets the handler run, otherwise the redirect's flash.
login_required == IF session.user_id = NULL THEN "please_log_in" ELSE NULL

\* Mutant of author_required: any logged-in session passes.
author_required_any_role ==
    IF session.user_id = NULL THEN "please_log_in" ELSE NULL

author_required ==
    IF session.user_id = NULL THEN "please_log_in"
    ELSE IF session.user_type # "author" THEN "authors_only"
    ELSE NULL

company_required ==
    IF session.user_id = NULL THEN "please_log_in"
    ELSE IF session.user_type # "company" THEN "companies_only"
    ELSE NULL

\* login with a registered account's credentials (a wrong password leaves the session).
Login(u, passwordOk) ==
    /\ IF passwordOk
       THEN /\ session' = [user_id |-> u, user_type |-> UserType(u)]
            /\ Respond("login", 0, "login_successful")
       ELSE /\ session' = session
            /\ Respond("login", 0, "invalid_credentials")
    /\ UNCHANGED <<db, storage, inflight>>
    /\ UNCHANGED accounts

Logout ==
    /\ session' = NoSession
    /\ Respond("logout", 0, "logged_out")
    /\ UNCHANGED <<db, storage, inflight>>
    /\ UNCHANGED accounts


(* ------------------------------------------------------------------ *)
(* storage.py                                                          *)
(* ------------------------------------------------------------------ *)

\* upload_paper_pdf: file_path = f"{paper_id}.pdf".
upload_paper_pdf(p) == <<p, ".pdf">>

(* ------------------------------------------------------------------ *)
(* routes/papers.py: scores                                            *)
(* ------------------------------------------------------------------ *)

Min(a, b) == IF a <= b THEN a ELSE b

\* Mutant of calculate_business_relevance_score: the critical count is
\* normalised by 5 companies instead of 3.
business_relevance_score_by_five(table, p) ==
    LET total_interested ==
            Cardinality({k \in DOMAIN table : k[1] = p})
        business_critical_count ==
            Cardinality({k \in DOMAIN table :
                            k[1] = p /\ table[k].is_business_critical})
        popularity_score == Min(40, total_interested * 4)
        business_critical_score ==
            IF business_critical_count > 0
            THEN Min(60, business_critical_count * 12) ELSE 0
    IN  Min(100, popularity_score + business_critical_score)

\* calculate_business_relevance_score over an interests table, in hundredths:
\* min(0.4, n/10 * 0.4) + (min(0.6, k/3 * 0.6) if k > 0), capped at 1.0.
calculate_business_relevance_score(table, p) ==
    LET total_interested ==
            Cardinality({k \in DOMAIN table : k[1] = p})
        business_critical_count ==
            Cardinality({k \in DOMAIN table :
                            k[1] = p /\ table[k].is_business_critical})
        popularity_score == Min(40, total_interested * 4)
        business_critical_score ==
            IF business_critical_count > 0
            THEN Min(60, business_critical_count * 20) ELSE 0
    IN  Min(100, popularity_score + business_critical_score)

\* A relevance score s stands for the float s / ScoreUnit: the unit is fine
\* enough for every quotient and product the function forms to be a whole number
\* of units (the rounding of the float operations is not modelled).
ScoreUnit == 24000

RECURSIVE SumOver(_, _)
SumOver(f, S) ==
    IF S = {} THEN 0
    ELSE LET x == CHOOSE y \in S : TRUE IN f[x] + SumOver(f, S \ {x})

\* [i.strip().lower() for i in text.split(',')]
Tags(text) ==
    LET pieces == Split(Chars[text], ",")
    IN  [i \in 1..Len(pieces) |-> Lower(Strip(pieces[i]))]

\* interest in text or text in interest or len(text_words & interest_words) > 0
InterestMatches(interest, text, text_words) ==
    \/ Contains(interest, text)
    \/ Contains(text, interest)
    \/ text_words \cap WordSet(Replace(interest, "-", " ")) # {}

\* The rows of users joined to the paper's collaborator rows.
AuthorsOf(table, p) == {a \in DOMAIN table : <<p, a>> \in collabs}

\* The subject loop (papers.py 102-119): 0.5 if any subject tag matches any interest.
subject_score(p, company_interests) ==
    IF Truthy(papers[p].subject)
       /\ LET paper_subjects == Tags(papers[p].subject)
          IN  \E i \in DOMAIN paper_subjects, j \in DOMAIN company_interests :
                 InterestMatches(company_interests[j], paper_subjects[i],
                     WordSet(Replace(paper_subjects[i], "-", " ")))
    THEN ScoreUnit \div 2
    ELSE 0

\* Mutant of FieldMatches: an empty field_of_research is compared like any other.
FieldMatchesUnchecked(author, company_interests) ==
    LET author_field == Lower(Chars[author.field_of_research])
        author_words == WordSet(Replace(Replace(author_field, ",", " "), "-", " "))
    IN  \E j \in DOMAIN company_interests :
           InterestMatches(company_interests[j], author_field, author_words)

\* The author loop's test (papers.py 126-137): the author's field matches an interest.
FieldMatches(author, company_interests) ==
    /\ Truthy(author.field_of_research)
    /\ LET author_field == Lower(Chars[author.field_of_research])
           author_words == WordSet(Replace(Replace(author_field, ",", " "), "-", " "))
       IN  \E j \in DOMAIN company_interests :
              InterestMatches(company_interests[j], author_field, author_words)

\* Mutant of interested_count: the scored paper's own link counts too.
interested_count_any_paper(table, p, c) ==
    Cardinality({k \in DOMAIN interests :
        /\ k[2] = c
        /\ \E a \in AuthorsOf(table, p) : <<k[1], a>> \in collabs})

\* Interest links of the company on other papers that share a collaborator
\* with p (papers.py 169-181).
interested_count(table, p, c) ==
    Cardinality({k \in DOMAIN interests :
        /\ k[2] = c
        /\ k[1] # p
        /\ \E a \in AuthorsOf(table, p) : <<k[1], a>> \in collabs})

\* Mutant of base_score: the field score is the fraction of authors whose field
\* does not match.
base_score_unmatched(table, p, c) ==
    LET company_interests == Tags(companies[c].research_interests)
        authors == AuthorsOf(table, p)
        n == Cardinality(authors)
        field_matches ==
            Cardinality({a \in authors : FieldMatches(table[a], company_interests)})
        field_score ==
            IF n > 0
            THEN ((n - field_matches) * ((ScoreUnit * 35) \div 100)) \div n ELSE 0
        total_experience ==
            SumOver([a \in authors |-> table[a].years_of_experience], authors)
        experience_score ==
            IF n > 0
            THEN Min((ScoreUnit * 5) \div 100,
                     (total_experience * ((ScoreUnit * 5) \div 100)) \div (n * 20))
            ELSE 0
    IN  subject_score(p, company_interests) + field_score + experience_score

\* base_score before the boost (papers.py 101-151).
base_score(table, p, c) ==
    LET company_interests == Tags(companies[c].research_interests)
        authors == AuthorsOf(table, p)
        n == Cardinality(authors)
        field_matches ==
            Cardinality({a \in authors : FieldMatches(table[a], company_interests)})
        field_score ==
            IF n > 0 THEN (field_matches * ((ScoreUnit * 35) \div 100)) \div n ELSE 0
        total_experience ==
            SumOver([a \in authors |-> table[a].years_of_experience], authors)
        experience_score ==
            IF n > 0
            THEN Min((ScoreUnit * 5) \div 100,
                     (total_experience * ((ScoreUnit * 5) \div 100)) \div (n * 20))
            ELSE 0
    IN  subject_score(p, company_interests) + field_score + experience_score

\* Mutant of relevance_score: the boosted score is returned without the cap.
relevance_score_uncapped(table, p, c) ==
    IF c \notin DOMAIN companies \/ ~Truthy(companies[c].research_interests)
    THEN 0
    ELSE IF ~PaperExists(p)
    THEN 0
    ELSE IF AuthorsOf(table, p) # {} /\ interested_count(table, p, c) > 0
         THEN (base_score(table, p, c) * 13) \div 10
         ELSE base_score(table, p, c)

\* Mutant of relevance_score: a company without interests gets a neutral score.
relevance_score_neutral(table, p, c) ==
    IF c \notin DOMAIN companies \/ ~Truthy(companies[c].research_interests)
    THEN ScoreUnit \div 2
    ELSE IF ~PaperExists(p)
    THEN 0
    ELSE LET boosted ==
                 IF AuthorsOf(table, p) # {} /\ interested_count(table, p, c) > 0
                 THEN (base_score(table, p, c) * 13) \div 10
                 ELSE base_score(table, p, c)
         IN  Min(ScoreUnit, boosted)

\* Mutant of relevance_score: the boost adds 0.3 instead of multiplying by 1.3.
relevance_score_added_boost(table, p, c) ==
    IF c \notin DOMAIN companies \/ ~Truthy(companies[c].research_interests)
    THEN 0
    ELSE IF ~PaperExists(p)
    THEN 0
    ELSE LET boosted ==
                 IF AuthorsOf(table, p) # {} /\ interested_count(table, p, c) > 0
                 THEN base_score(table, p, c) + (ScoreUnit * 3) \div 10
                 ELSE base_score(table, p, c)
         IN  Min(ScoreUnit, boosted)

\* calculate_relevance_score (papers.py 69-188) over a given users table.
relevance_score(table, p, c) ==
    IF c \notin DOMAIN companies \/ ~Truthy(companies[c].research_interests)
    THEN 0
    ELSE IF ~PaperExists(p)
    THEN 0
    ELSE LET boosted ==
                 IF AuthorsOf(table, p) # {} /\ interested_count(table, p, c) > 0
                 THEN (base_score(table, p, c) * 13) \div 10
                 ELSE base_score(table, p, c)
         IN  Min(ScoreUnit, boosted)

calculate_relevance_score(p, c) == relevance_score(users, p, c)

\* Mutant of SortedByScore: the sort is ascending.
RECURSIVE SortedAscending(_)
SortedAscending(entries) ==
    IF entries = <<>> THEN <<>>
    ELSE LET n == Len(entries)
             x == entries[n]
             head == SortedAscending(SubSeq(entries, 1, n - 1))
             k == Cardinality({i \in 1..(n - 1) : head[i].score <= x.score})
         IN  SubSeq(head, 1, k) \o <<x>> \o SubSeq(head, k + 1, n - 1)

\* list.sort(key=score, reverse=True) is stable: an entry goes behind every entry
\* already placed whose score is at least its own.
RECURSIVE SortedByScore(_)
SortedByScore(entries) ==
    IF entries = <<>> THEN <<>>
    ELSE LET n == Len(entries)
             x == entries[n]
             head == SortedByScore(SubSeq(entries, 1, n - 1))
             k == Cardinality({i \in 1..(n - 1) : head[i].score >= x.score})
         IN  SubSeq(head, 1, k) \o <<x>> \o SubSeq(head, k + 1, n - 1)

\* get_recommended_papers (papers.py 191-222). enumeration is the order in which
\* the table hands over its rows to the query, which has no ORDER BY.
get_recommended_papers(c, limit, enumeration) ==
    LET published == SelectSeq(enumeration,
                         LAMBDA p : papers[p].status = "published")
        scored == [i \in 1..Len(published) |->
                      [paper |-> published[i],
                       score |-> calculate_relevance_score(published[i], c)]]
        scored_papers == SelectSeq(scored, LAMBDA e : e.score > 0)
        sorted == SortedByScore(scored_papers)
    IN  SubSeq(sorted, 1, Min(limit, Len(sorted)))

\* The orders in which a query may hand over the papers it selects.
Enumerations(S) ==
    {e \in [1..Cardinality(S) -> S] : \A i, j \in DOMAIN e : e[i] = e[j] => i = j}

(* ------------------------------------------------------------------ *)
(* routes/papers.py: paper handlers                                    *)
(* ------------------------------------------------------------------ *)

\* create_paper up to the commit of the paper row (papers.py 391-413).
CreatePaper(title, subject, pdf) ==
    /\ UnusedPaperIds # {}
    /\ IdleSlots # {}
    /\ IF author_required # NULL
       THEN /\ Respond("create_paper", 0, author_required)
            /\ UNCHANGED <<db, storage, inflight>>
       ELSE IF pdf = "none"
       THEN /\ Respond("create_paper", 0, "please_upload_pdf")
            /\ UNCHANGED <<db, storage, inflight>>
       ELSE IF pdf = "upload_fails"
       THEN /\ Respond("create_paper", 0, "error")
            /\ UNCHANGED <<db, storage, inflight>>
       ELSE LET paper_id == FreshPaperId
                file_path == upload_paper_pdf(paper_id)
            IN  /\ storage' = storage \cup {file_path}
                /\ papers' = papers @@
                       (paper_id :> Paper(title, subject, file_path, session.user_id))
                /\ inflight' = [inflight EXCEPT ![FreeSlot] =
                       [pc |-> "create_paper_collaborator",
                        paper_id |-> paper_id, user_id |-> session.user_id]]
                /\ Respond("create_paper", paper_id, "pending")
                /\ UNCHANGED <<collabs, interests, reviews>>
    /\ UNCHANGED session
    /\ UNCHANGED accounts

\* create_paper from the second commit on (papers.py 415-425): the creator's
\* collaborator row, or the rollback of it when that commit raises.
CreatePaperCollaborator(w, commitOk) ==
    /\ inflight[w].pc = "create_paper_collaborator"
    /\ IF commitOk
       THEN /\ collabs' = collabs \cup {<<inflight[w].paper_id, inflight[w].user_id>>}
            /\ Respond("create_paper", inflight[w].paper_id, "paper_created")
       ELSE /\ collabs' = collabs
            /\ Respond("create_paper", inflight[w].paper_id, "error")
    /\ inflight' = [inflight EXCEPT ![w] = Idle]
    /\ UNCHANGED <<papers, interests, reviews, storage, session>>
    /\ UNCHANGED accounts

\* Mutant of PaperAccess: the company branch forgets the status test.
PaperAccessAnyStatus(p) ==
    IF ~PaperExists(p) THEN "paper_not_found"
    ELSE IF session.user_type = "author"
    THEN IF ~IsCollaborator(p, session.user_id) THEN "no_access" ELSE NULL
    ELSE NULL

\* view_paper's and download_paper's permission check (papers.py 437-456, 631-650):
\* NULL when access is granted, otherwise the flash of the refusal.
PaperAccess(p) ==
    IF ~PaperExists(p) THEN "paper_not_found"
    ELSE IF session.user_type = "author"
    THEN IF ~IsCollaborator(p, session.user_id) THEN "no_access" ELSE NULL
    ELSE IF papers[p].status # "published" THEN "not_published" ELSE NULL

\* view_paper (papers.py 432-547): nothing it computes is stored.
ViewPaper(p) ==
    /\ IF login_required # NULL
       THEN Respond("view_paper", p, login_required)
       ELSE IF PaperAccess(p) # NULL
       THEN Respond("view_paper", p, PaperAccess(p))
       ELSE Respond("view_paper", p, "rendered")
    /\ UNCHANGED <<db, storage, session, inflight>>
    /\ UNCHANGED accounts

\* Mutant of UpdatePaper: the collaborator check is missing (an UPDATE of a
\* missing row changes nothing).
UpdatePaperAnyAuthor(p, title, subject, pdf) ==
    /\ IF author_required # NULL
       THEN /\ Respond("update_paper", p, author_required)
            /\ UNCHANGED <<papers, storage>>
       ELSE IF ~PaperExists(p)
       THEN /\ Respond("update_paper", p, "none")
            /\ UNCHANGED <<papers, storage>>
       ELSE LET t == IF title # NULL THEN title ELSE papers[p].title
                s == IF subject = "absent" THEN papers[p].subject
                     ELSE IF subject = "" THEN NULL ELSE subject
            IN  /\ papers' = [papers EXCEPT ![p].title = t, ![p].subject = s,
                       ![p].file_path = IF pdf = "uploaded"
                                        THEN upload_paper_pdf(p) ELSE @]
                /\ storage' = IF pdf = "uploaded"
                              THEN storage \cup {upload_paper_pdf(p)} ELSE storage
                /\ Respond("update_paper", p,
                       IF pdf = "upload_fails" THEN "error"
                       ELSE IF pdf = "uploaded" THEN "version_uploaded"
                       ELSE IF subject # "absent" THEN "subject_updated"
                       ELSE IF title # NULL THEN "title_updated"
                       ELSE "none")
    /\ UNCHANGED <<collabs, interests, reviews, session, inflight>>
    /\ UNCHANGED accounts

\* Mutant of UpdatePaper: one transaction, so a failed upload takes the title
\* and the subject back.
UpdatePaperAtomic(p, title, subject, pdf) ==
    /\ IF author_required # NULL
       THEN /\ Respond("update_paper", p, author_required)
            /\ UNCHANGED <<papers, storage>>
       ELSE IF ~IsCollaborator(p, session.user_id)
       THEN /\ Respond("update_paper", p, "not_collaborator")
            /\ UNCHANGED <<papers, storage>>
       ELSE IF pdf = "upload_fails"
       THEN /\ Respond("update_paper", p, "error")
            /\ UNCHANGED <<papers, storage>>
       ELSE LET t == IF title # NULL THEN title ELSE papers[p].title
                s == IF subject = "absent" THEN papers[p].subject
                     ELSE IF subject = "" THEN NULL ELSE subject
            IN  /\ papers' = [papers EXCEPT ![p].title = t, ![p].subject = s,
                       ![p].file_path = IF pdf = "uploaded"
                                        THEN upload_paper_pdf(p) ELSE @]
                /\ storage' = IF pdf = "uploaded"
                              THEN storage \cup {upload_paper_pdf(p)} ELSE storage
                /\ Respond("update_paper", p,
                       IF pdf = "uploaded" THEN "version_uploaded"
                       ELSE IF subject # "absent" THEN "subject_updated"
                       ELSE IF title # NULL THEN "title_updated"
                       ELSE "none")
    /\ UNCHANGED <<collabs, interests, reviews, session, inflight>>
    /\ UNCHANGED accounts

\* update_paper: title, subject and file are three commits; a failed upload
\* raises after the first two (papers.py 552-594).
UpdatePaper(p, title, subject, pdf) ==
    /\ IF author_required # NULL
       THEN /\ Respond("update_paper", p, author_required)
            /\ UNCHANGED <<papers, storage>>
       ELSE IF ~IsCollaborator(p, session.user_id)
       THEN /\ Respond("update_paper", p, "not_collaborator")
            /\ UNCHANGED <<papers, storage>>
       ELSE LET t == IF title # NULL THEN title ELSE papers[p].title
                s == IF subject = "absent" THEN papers[p].subject
                     ELSE IF subject = "" THEN NULL ELSE subject
            IN  /\ papers' = [papers EXCEPT ![p].title = t, ![p].subject = s,
                       ![p].file_path = IF pdf = "uploaded"
                                        THEN upload_paper_pdf(p) ELSE @]
                /\ storage' = IF pdf = "uploaded"
                              THEN storage \cup {upload_paper_pdf(p)} ELSE storage
                /\ Respond("update_paper", p,
                       IF pdf = "upload_fails" THEN "error"
                       ELSE IF pdf = "uploaded" THEN "version_uploaded"
                       ELSE IF subject # "absent" THEN "subject_updated"
                       ELSE IF title # NULL THEN "title_updated"
                       ELSE "none")
    /\ UNCHANGED <<collabs, interests, reviews, session, inflight>>
    /\ UNCHANGED accounts

\* Mutant of PublishPaper: the handler toggles the status.
PublishPaperToggles(p) ==
    /\ IF author_required # NULL
       THEN /\ Respond("publish_paper", p, author_required)
            /\ UNCHANGED papers
       ELSE IF ~IsCollaborator(p, session.user_id)
       THEN /\ Respond("publish_paper", p, "not_collaborator")
            /\ UNCHANGED papers
       ELSE /\ papers' = [papers EXCEPT ![p].status =
                              IF @ = "published" THEN "draft" ELSE "published"]
            /\ Respond("publish_paper", p, "paper_published")
    /\ UNCHANGED <<collabs, interests, reviews, storage, session, inflight>>
    /\ UNCHANGED accounts

\* Mutant of PublishPaper: a paper that is already published is an error.
PublishPaperOnce(p) ==
    /\ IF author_required # NULL
       THEN /\ Respond("publish_paper", p, author_required)
            /\ UNCHANGED papers
       ELSE IF ~IsCollaborator(p, session.user_id)
       THEN /\ Respond("publish_paper", p, "not_collaborator")
            /\ UNCHANGED papers
       ELSE IF papers[p].status = "published"
       THEN /\ Respond("publish_paper", p, "already_published")
            /\ UNCHANGED papers
       ELSE /\ papers' = [papers EXCEPT ![p].status = "published"]
            /\ Respond("publish_paper", p, "paper_published")
    /\ UNCHANGED <<collabs, interests, reviews, storage, session, inflight>>
    /\ UNCHANGED accounts

\* publish_paper (papers.py 599-621): the UPDATE sets the status whatever it was.
PublishPaper(p) ==
    /\ IF author_required # NULL
       THEN /\ Respond("publish_paper", p, author_required)
            /\ UNCHANGED papers
       ELSE IF ~IsCollaborator(p, session.user_id)
       THEN /\ Respond("publish_paper", p, "not_collaborator")
            /\ UNCHANGED papers
       ELSE /\ papers' = [papers EXCEPT ![p].status = "published"]
            /\ Respond("publish_paper", p, "paper_published")
    /\ UNCHANGED <<collabs, interests, reviews, storage, session, inflight>>
    /\ UNCHANGED accounts

\* Mutant of DownloadPaper: downloads by authors are counted too.
DownloadPaperCountsAuthors(p, incrementOk, storageOk) ==
    /\ IF login_required # NULL
       THEN /\ Respond("download_paper", p, login_required)
            /\ UNCHANGED papers
       ELSE IF PaperAccess(p) # NULL
       THEN /\ Respond("download_paper", p, PaperAccess(p))
            /\ UNCHANGED papers
       ELSE IF papers[p].file_path = <<>>
       THEN /\ Respond("download_paper", p, "file_not_found")
            /\ UNCHANGED papers
       ELSE /\ IF incrementOk
               THEN /\ papers[p].download_count < MaxDownloads
                    /\ papers' = [papers EXCEPT ![p].download_count = @ + 1]
               ELSE UNCHANGED papers
            /\ Respond("download_paper", p,
                   IF storageOk /\ papers[p].file_path \in storage
                   THEN "file_sent" ELSE "download_error")
    /\ UNCHANGED <<collabs, interests, reviews, storage, session, inflight>>
    /\ UNCHANGED accounts

\* download_paper (papers.py 626-679); a failed increment is logged and ignored.
DownloadPaper(p, incrementOk, storageOk) ==
    /\ IF login_required # NULL
       THEN /\ Respond("download_paper", p, login_required)
            /\ UNCHANGED papers
       ELSE IF PaperAccess(p) # NULL
       THEN /\ Respond("download_paper", p, PaperAccess(p))
            /\ UNCHANGED papers
       ELSE IF papers[p].file_path = <<>>
       THEN /\ Respond("download_paper", p, "file_not_found")
            /\ UNCHANGED papers
       ELSE /\ IF session.user_type = "company" /\ incrementOk
               THEN /\ papers[p].download_count < MaxDownloads
                    /\ papers' = [papers EXCEPT ![p].download_count = @ + 1]
               ELSE UNCHANGED papers
            /\ Respond("download_paper", p,
                   IF storageOk /\ papers[p].file_path \in storage
                   THEN "file_sent" ELSE "download_error")
    /\ UNCHANGED <<collabs, interests, reviews, storage, session, inflight>>
    /\ UNCHANGED accounts

\* download_paper up to its increment (papers.py 626-655), for the requests
\* that are raced: the paper row is read, with its download_count, and the
\* permissions and the file path are checked on it.
DownloadPaperRead(p) ==
    /\ IdleSlots # {}
    /\ IF login_required # NULL
       THEN /\ Respond("download_paper", p, login_required)
            /\ UNCHANGED inflight
       ELSE IF PaperAccess(p) # NULL
       THEN /\ Respond("download_paper", p, PaperAccess(p))
            /\ UNCHANGED inflight
       ELSE IF papers[p].file_path = <<>>
       THEN /\ Respond("download_paper", p, "file_not_found")
            /\ UNCHANGED inflight
       ELSE /\ inflight' = [inflight EXCEPT ![FreeSlot] =
                   [pc |-> "download_paper_increment", paper_id |-> p,
                    user_type |-> session.user_type,
                    download_count |-> papers[p].download_count]]
            /\ Respond("download_paper", p, "pending")
    /\ UNCHANGED <<db, storage, session>>
    /\ UNCHANGED accounts

\* Mutant of DownloadPaperIncrement: the count is incremented on the row the
\* request read and written back.
DownloadPaperIncrementFromRead(w, incrementOk, storageOk) ==
    /\ inflight[w].pc = "download_paper_increment"
    /\ LET p == inflight[w].paper_id
           counted == inflight[w].user_type = "company" /\ incrementOk
       IN  /\ papers' = IF counted
                        THEN [papers EXCEPT ![p].download_count =
                                 inflight[w].download_count + 1]
                        ELSE papers
           /\ inflight' = [inflight EXCEPT ![w] =
                  [pc |-> "downloaded", paper_id |-> p, counted |-> counted,
                   download_count |-> inflight[w].download_count]]
           /\ Respond("download_paper", p,
                  IF storageOk /\ papers[p].file_path \in storage
                  THEN "file_sent" ELSE "download_error")
    /\ UNCHANGED <<collabs, interests, reviews, storage, session>>
    /\ UNCHANGED accounts

\* download_paper from its increment on (papers.py 655-679): one UPDATE
\* statement adds 1 to the count the table holds at that moment (a failed one is
\* logged and ignored), then the file is fetched. The slot keeps the ended
\* request: whether it was to be counted, and the count it had read.
DownloadPaperIncrement(w, incrementOk, storageOk) ==
    /\ inflight[w].pc = "download_paper_increment"
    /\ LET p == inflight[w].paper_id
           counted == inflight[w].user_type = "company" /\ incrementOk
       IN  /\ papers' = IF counted
                        THEN [papers EXCEPT ![p].download_count = @ + 1]
                        ELSE papers
           /\ inflight' = [inflight EXCEPT ![w] =
                  [pc |-> "downloaded", paper_id |-> p, counted |-> counted,
                   download_count |-> inflight[w].download_count]]
           /\ Respond("download_paper", p,
                  IF storageOk /\ papers[p].file_path \in storage
                  THEN "file_sent" ELSE "download_error")
    /\ UNCHANGED <<collabs, interests, reviews, storage, session>>
    /\ UNCHANGED accounts

\* Mutant of SubmitReview: the own-paper check is missing.
SubmitReviewOwnPaper(p, rating) ==
    /\ IdleSlots # {}
    /\ IF login_required # NULL
       THEN /\ Respond("submit_review", p, login_required)
            /\ UNCHANGED inflight
       ELSE IF rating = <<>> \/ rating[1] = 0 \/ ~(1 <= rating[1] /\ rating[1] <= 5)
       THEN /\ Respond("submit_review", p, "invalid_rating")
            /\ UNCHANGED inflight
       ELSE IF ~PaperExists(p) \/ papers[p].status # "published"
       THEN /\ Respond("submit_review", p, "not_found_or_not_published")
            /\ UNCHANGED inflight
       ELSE IF ExistingReview(p, session.user_type, session.user_id)
       THEN /\ Respond("submit_review", p, "already_reviewed")
            /\ UNCHANGED inflight
       ELSE /\ inflight' = [inflight EXCEPT ![FreeSlot] =
                   [pc |-> "submit_review_insert", paper_id |-> p,
                    user_id |-> session.user_id, user_type |-> session.user_type,
                    rating |-> rating[1]]]
            /\ Respond("submit_review", p, "pending")
    /\ UNCHANGED <<db, storage, session>>
    /\ UNCHANGED accounts

\* Mutant of SubmitReview: the rating is validated after the other checks.
SubmitReviewRatingLast(p, rating) ==
    /\ IdleSlots # {}
    /\ IF login_required # NULL
       THEN /\ Respond("submit_review", p, login_required)
            /\ UNCHANGED inflight
       ELSE IF ~PaperExists(p) \/ papers[p].status # "published"
       THEN /\ Respond("submit_review", p, "not_found_or_not_published")
            /\ UNCHANGED inflight
       ELSE IF session.user_type = "author" /\ IsCollaborator(p, session.user_id)
       THEN /\ Respond("submit_review", p, "own_paper")
            /\ UNCHANGED inflight
       ELSE IF ExistingReview(p, session.user_type, session.user_id)
       THEN /\ Respond("submit_review", p, "already_reviewed")
            /\ UNCHANGED inflight
       ELSE IF rating = <<>> \/ rating[1] = 0 \/ ~(1 <= rating[1] /\ rating[1] <= 5)
       THEN /\ Respond("submit_review", p, "invalid_rating")
            /\ UNCHANGED inflight
       ELSE /\ inflight' = [inflight EXCEPT ![FreeSlot] =
                   [pc |-> "submit_review_insert", paper_id |-> p,
                    user_id |-> session.user_id, user_type |-> session.user_type,
                    rating |-> rating[1]]]
            /\ Respond("submit_review", p, "pending")
    /\ UNCHANGED <<db, storage, session>>
    /\ UNCHANGED accounts

\* submit_review up to the read of the existing review (papers.py 684-716).
SubmitReview(p, rating) ==
    /\ IdleSlots # {}
    /\ IF login_required # NULL
       THEN /\ Respond("submit_review", p, login_required)
            /\ UNCHANGED inflight
       ELSE IF rating = <<>> \/ rating[1] = 0 \/ ~(1 <= rating[1] /\ rating[1] <= 5)
       THEN /\ Respond("submit_review", p, "invalid_rating")
            /\ UNCHANGED inflight
       ELSE IF ~PaperExists(p) \/ papers[p].status # "published"
       THEN /\ Respond("submit_review", p, "not_found_or_not_published")
            /\ UNCHANGED inflight
       ELSE IF session.user_type = "author" /\ IsCollaborator(p, session.user_id)
       THEN /\ Respond("submit_review", p, "own_paper")
            /\ UNCHANGED inflight
       ELSE IF ExistingReview(p, session.user_type, session.user_id)
       THEN /\ Respond("submit_review", p, "already_reviewed")
            /\ UNCHANGED inflight
       ELSE /\ inflight' = [inflight EXCEPT ![FreeSlot] =
                   [pc |-> "submit_review_insert", paper_id |-> p,
                    user_id |-> session.user_id, user_type |-> session.user_type,
                    rating |-> rating[1]]]
            /\ Respond("submit_review", p, "pending")
    /\ UNCHANGED <<db, storage, session>>
    /\ UNCHANGED accounts

\* submit_review's insert and commit (papers.py 718-736): the table's
\* constraints decide whether the commit raises.
SubmitReviewInsert(w) ==
    /\ inflight[w].pc = "submit_review_insert"
    /\ LET new_review == Review(inflight[w].paper_id, inflight[w].user_type,
                                inflight[w].user_id, inflight[w].rating)
       IN  IF ReviewChecksOk(new_review) /\ ReviewUniqueOk(new_review)
           THEN /\ ReviewCount < MaxReviews
                /\ reviews' = reviews (+) SetToBag({new_review})
                /\ Respond("submit_review", inflight[w].paper_id, "review_submitted")
           ELSE /\ reviews' = reviews
                /\ Respond("submit_review", inflight[w].paper_id, "error")
    /\ inflight' = [inflight EXCEPT ![w] = Idle]
    /\ UNCHANGED <<papers, collabs, interests, storage, session>>
    /\ UNCHANGED accounts

\* update_research_interests (papers.py 332-349): the stripped text, None when
\* nothing is left.
UpdateResearchInterests(research_interests) ==
    /\ IF company_required # NULL
       THEN /\ Respond("update_research_interests", 0, company_required)
            /\ UNCHANGED companies
       ELSE LET stripped == Strip(Chars[research_interests])
            IN  /\ companies' = [companies EXCEPT ![session.user_id] =
                       Company(IF stripped # <<>> THEN StringOf(stripped) ELSE NULL)]
                /\ Respond("update_research_interests", 0, "interests_updated")
    /\ UNCHANGED <<users, db, storage, session, inflight>>

\* recommended_papers (papers.py 352-386): the list is rendered, nothing is stored.
RecommendedPapers(enumeration) ==
    /\ IF company_required # NULL
       THEN Respond("recommended_papers", 0, company_required)
       ELSE IF ~Truthy(companies[session.user_id].research_interests)
       THEN Respond("recommended_papers", 0, "set_interests_first")
       ELSE resp' = [op |-> "recommended_papers", paper |-> 0, msg |-> "rendered",
                     list |-> get_recommended_papers(session.user_id,
                                  RecommendationLimit, enumeration)]
    /\ UNCHANGED <<db, storage, session, inflight>>
    /\ UNCHANGED accounts

\* Mutant of ToggleBusinessCritical: the toggle also stores the relevance score
\* of the paper for the company in the link.
ToggleBusinessCriticalStoresRelevance(p) ==
    /\ IF company_required # NULL
       THEN /\ Respond("toggle_business_critical", p, company_required)
            /\ UNCHANGED interests
       ELSE IF ~HasInterest(p, session.user_id)
       THEN /\ Respond("toggle_business_critical", p, "must_mark_interest")
            /\ UNCHANGED interests
       ELSE LET key == <<p, session.user_id>>
                flipped == [interests EXCEPT
                               ![key].is_business_critical = ~@]
                new_score == calculate_business_relevance_score(flipped, p)
            IN  /\ interests' = [flipped EXCEPT
                                    ![key].business_relevance_score = new_score,
                                    ![key].relevance_score =
                                        calculate_relevance_score(p, session.user_id)]
                /\ Respond("toggle_business_critical", p,
                       IF flipped[key].is_business_critical
                       THEN "marked_critical" ELSE "unmarked_critical")
    /\ UNCHANGED <<papers, collabs, reviews, storage, session, inflight>>
    /\ UNCHANGED accounts

\* Mutant of ToggleBusinessCritical: the score is computed before the flag is
\* flipped.
ToggleBusinessCriticalStaleScore(p) ==
    /\ IF company_required # NULL
       THEN /\ Respond("toggle_business_critical", p, company_required)
            /\ UNCHANGED interests
       ELSE IF ~HasInterest(p, session.user_id)
       THEN /\ Respond("toggle_business_critical", p, "must_mark_interest")
            /\ UNCHANGED interests
       ELSE LET key == <<p, session.user_id>>
                new_score == calculate_business_relevance_score(interests, p)
            IN  /\ interests' = [interests EXCEPT
                                    ![key].is_business_critical = ~@,
                                    ![key].business_relevance_score = new_score]
                /\ Respond("toggle_business_critical", p,
                       IF interests'[key].is_business_critical
                       THEN "marked_critical" ELSE "unmarked_critical")
    /\ UNCHANGED <<papers, collabs, reviews, storage, session, inflight>>
    /\ UNCHANGED accounts

\* toggle_business_critical (papers.py 741-770): the flag is flipped, then the
\* score is counted over the table with the flip in it (the query autoflushes).
ToggleBusinessCritical(p) ==
    /\ IF company_required # NULL
       THEN /\ Respond("toggle_business_critical", p, company_required)
            /\ UNCHANGED interests
       ELSE IF ~HasInterest(p, session.user_id)
       THEN /\ Respond("toggle_business_critical", p, "must_mark_interest")
            /\ UNCHANGED interests
       ELSE LET key == <<p, session.user_id>>
                flipped == [interests EXCEPT
                               ![key].is_business_critical = ~@]
                new_score == calculate_business_relevance_score(flipped, p)
            IN  /\ interests' = [flipped EXCEPT
                                    ![key].business_relevance_score = new_score]
                /\ Respond("toggle_business_critical", p,
                       IF flipped[key].is_business_critical
                       THEN "marked_critical" ELSE "unmarked_critical")
    /\ UNCHANGED <<papers, collabs, reviews, storage, session, inflight>>
    /\ UNCHANGED accounts

(* ------------------------------------------------------------------ *)
(* routes/collaborators.py                                             *)
(* ------------------------------------------------------------------ *)

\* Mutant of AddCollaborator: the actor's own link is not checked (a link to a
\* missing paper breaks the foreign key and is rolled back).
AddCollaboratorAnyAuthor(p, collaborator_email) ==
    /\ IF author_required # NULL
       THEN /\ Respond("add_collaborator", p, author_required)
            /\ UNCHANGED collabs
       ELSE IF collaborator_email = NULL
       THEN /\ Respond("add_collaborator", p, "provide_email")
            /\ UNCHANGED collabs
       ELSE IF collaborator_email \notin Authors
       THEN /\ Respond("add_collaborator", p, "author_not_found")
            /\ UNCHANGED collabs
       ELSE IF IsCollaborator(p, collaborator_email)
       THEN /\ Respond("add_collaborator", p, "already_collaborator")
            /\ UNCHANGED collabs
       ELSE IF ~PaperExists(p)
       THEN /\ Respond("add_collaborator", p, "error")
            /\ UNCHANGED collabs
       ELSE /\ collabs' = collabs \cup {<<p, collaborator_email>>}
            /\ Respond("add_collaborator", p, "collaborator_added")
    /\ UNCHANGED <<papers, interests, reviews, storage, session, inflight>>
    /\ UNCHANGED accounts

\* add_collaborator (collaborators.py 16-60).
AddCollaborator(p, collaborator_email) ==
    /\ IF author_required # NULL
       THEN /\ Respond("add_collaborator", p, author_required)
            /\ UNCHANGED collabs
       ELSE IF ~IsCollaborator(p, session.user_id)
       THEN /\ Respond("add_collaborator", p, "not_collaborator")
            /\ UNCHANGED collabs
       ELSE IF collaborator_email = NULL
       THEN /\ Respond("add_collaborator", p, "provide_email")
            /\ UNCHANGED collabs
       ELSE IF collaborator_email \notin Authors
       THEN /\ Respond("add_collaborator", p, "author_not_found")
            /\ UNCHANGED collabs
       ELSE IF IsCollaborator(p, collaborator_email)
       THEN /\ Respond("add_collaborator", p, "already_collaborator")
            /\ UNCHANGED collabs
       ELSE /\ collabs' = collabs \cup {<<p, collaborator_email>>}
            /\ Respond("add_collaborator", p, "collaborator_added")
    /\ UNCHANGED <<papers, interests, reviews, storage, session, inflight>>
    /\ UNCHANGED accounts

\* Mutant of RemoveCollaborator: the creator is not protected.
RemoveCollaboratorAnyTarget(p, collaborator_id) ==
    /\ IF author_required # NULL
       THEN /\ Respond("remove_collaborator", p, author_required)
            /\ UNCHANGED collabs
       ELSE IF ~IsCollaborator(p, session.user_id)
       THEN /\ Respond("remove_collaborator", p, "not_collaborator")
            /\ UNCHANGED collabs
       ELSE IF IsCollaborator(p, collaborator_id)
       THEN /\ collabs' = collabs \ {<<p, collaborator_id>>}
            /\ Respond("remove_collaborator", p, "collaborator_removed")
       ELSE /\ Respond("remove_collaborator", p, "collaborator_not_found")
            /\ UNCHANGED collabs
    /\ UNCHANGED <<papers, interests, reviews, storage, session, inflight>>
    /\ UNCHANGED accounts

\* remove_collaborator (collaborators.py 67-97).
RemoveCollaborator(p, collaborator_id) ==
    /\ IF author_required # NULL
       THEN /\ Respond("remove_collaborator", p, author_required)
            /\ UNCHANGED collabs
       ELSE IF ~IsCollaborator(p, session.user_id)
       THEN /\ Respond("remove_collaborator", p, "not_collaborator")
            /\ UNCHANGED collabs
       ELSE IF PaperExists(p) /\ papers[p].created_by = collaborator_id
       THEN /\ Respond("remove_collaborator", p, "cannot_remove_creator")
            /\ UNCHANGED collabs
       ELSE IF IsCollaborator(p, collaborator_id)
       THEN /\ collabs' = collabs \ {<<p, collaborator_id>>}
            /\ Respond("remove_collaborator", p, "collaborator_removed")
       ELSE /\ Respond("remove_collaborator", p, "collaborator_not_found")
            /\ UNCHANGED collabs
    /\ UNCHANGED <<papers, interests, reviews, storage, session, inflight>>
    /\ UNCHANGED accounts

(* ------------------------------------------------------------------ *)
(* routes/interests.py                                                 *)
(* ------------------------------------------------------------------ *)

\* Mutant of ToggleInterest: only the paper's existence is checked, not its status.
ToggleInterestAnyStatus(p) ==
    /\ IF company_required # NULL
       THEN /\ Respond("toggle_interest", p, company_required)
            /\ UNCHANGED interests
       ELSE IF ~PaperExists(p)
       THEN /\ Respond("toggle_interest", p, "only_published")
            /\ UNCHANGED interests
       ELSE LET key == <<p, session.user_id>>
            IN  IF HasInterest(p, session.user_id)
                THEN /\ interests' = [k \in DOMAIN interests \ {key} |-> interests[k]]
                     /\ Respond("toggle_interest", p, "interest_removed")
                ELSE /\ interests' = interests @@ (key :> PaperInterest)
                     /\ Respond("toggle_interest", p, "interest_added")
    /\ UNCHANGED <<papers, collabs, reviews, storage, session, inflight>>
    /\ UNCHANGED accounts

\* Mutant of ToggleInterest: an existing link is kept (interest is marked once).
ToggleInterestNeverRemoves(p) ==
    /\ IF company_required # NULL
       THEN /\ Respond("toggle_interest", p, company_required)
            /\ UNCHANGED interests
       ELSE IF ~PaperExists(p) \/ papers[p].status # "published"
       THEN /\ Respond("toggle_interest", p, "only_published")
            /\ UNCHANGED interests
       ELSE LET key == <<p, session.user_id>>
            IN  IF HasInterest(p, session.user_id)
                THEN /\ interests' = interests
                     /\ Respond("toggle_interest", p, "interest_removed")
                ELSE /\ interests' = interests @@ (key :> PaperInterest)
                     /\ Respond("toggle_interest", p, "interest_added")
    /\ UNCHANGED <<papers, collabs, reviews, storage, session, inflight>>
    /\ UNCHANGED accounts

\* toggle_interest (interests.py 16-48).
ToggleInterest(p) ==
    /\ IF company_required # NULL
       THEN /\ Respond("toggle_interest", p, company_required)
            /\ UNCHANGED interests
       ELSE IF ~PaperExists(p) \/ papers[p].status # "published"
       THEN /\ Respond("toggle_interest", p, "only_published")
            /\ UNCHANGED interests
       ELSE LET key == <<p, session.user_id>>
            IN  IF HasInterest(p, session.user_id)
                THEN /\ interests' = [k \in DOMAIN interests \ {key} |-> interests[k]]
                     /\ Respond("toggle_interest", p, "interest_removed")
                ELSE /\ interests' = interests @@ (key :> PaperInterest)
                     /\ Respond("toggle_interest", p, "interest_added")
    /\ UNCHANGED <<papers, collabs, reviews, storage, session, inflight>>
    /\ UNCHANGED accounts

(* ------------------------------------------------------------------ *)
(* The application                                                     *)
(* ------------------------------------------------------------------ *)

\* The registered accounts: what register_author and register_company stored.
InitAccounts ==
    /\ users = [a \in Authors |-> User(IF a = "a1" THEN "ml" ELSE "", 0)]
    /\ companies = [c \in Companies |-> Company("ml")]

InitWith(slots) ==
    /\ InitAccounts
    /\ papers = [p \in {} |-> NULL]
    /\ collabs = {}
    /\ interests = [k \in {} |-> NULL]
    /\ reviews = EmptyBag
    /\ storage = {}
    /\ session = NoSession
    /\ inflight = [w \in 1..slots |-> Idle]
    /\ resp = [op |-> "none", paper |-> 0, msg |-> "none"]

\* An empty database with the accounts registered, nobody logged in.
Init == InitWith(MaxInFlight)

Next ==
    \/ \E u \in Authors \cup Companies, ok \in BOOLEAN : Login(u, ok)
    \/ Logout
    \/ \E t \in CreateTitles, s \in Subjects \cup {NULL}, pdf \in PdfInputs :
           CreatePaper(t, s, pdf)
    \/ \E w \in Slots, commitOk \in BOOLEAN : CreatePaperCollaborator(w, commitOk)
    \/ \E p \in PaperIds : ViewPaper(p)
    \/ \E p \in PaperIds, t \in UpdateTitles,
          s \in Subjects \cup {"", "absent"}, pdf \in PdfInputs :
           UpdatePaper(p, t, s, pdf)
    \/ \E p \in PaperIds : PublishPaper(p)
    \/ \E p \in PaperIds, incrementOk, storageOk \in BOOLEAN :
           DownloadPaper(p, incrementOk, storageOk)
    \/ \E p \in PaperIds, r \in RatingInputs : SubmitReview(p, r)
    \/ \E w \in Slots : SubmitReviewInsert(w)
    \/ \E p \in PaperIds : ToggleBusinessCritical(p)
    \/ \E t \in InterestInputs : UpdateResearchInterests(t)
    \/ \E e \in Enumerations(DOMAIN papers) : RecommendedPapers(e)
    \/ \E p \in PaperIds, e \in EmailInputs : AddCollaborator(p, e)
    \/ \E p \in PaperIds, t \in TargetInputs : RemoveCollaborator(p, t)
    \/ \E p \in PaperIds : ToggleInterest(p)

Spec == Init /\ [][Next]_vars

\* A company asks for the relevance of one paper (view_paper, papers.py 511).
\* The scoring functions change nothing, so a second call would see what the
\* first saw: one call is made per database.
CalculateRelevanceScore(p, c) ==
    /\ resp.op = "none"
    /\ resp' = [op |-> "calculate_relevance_score", paper |-> p, msg |-> "scored",
                company |-> c, score |-> calculate_relevance_score(p, c)]
    /\ UNCHANGED <<accounts, db, storage, session, inflight>>

\* A company asks for its recommendations (recommended_papers, papers.py 364).
GetRecommendedPapers(c, limit, enumeration) ==
    /\ resp.op = "none"
    /\ resp' = [op |-> "get_recommended_papers", paper |-> 0, msg |-> "listed",
                company |-> c, limit |-> limit, enumeration |-> enumeration,
                list |-> get_recommended_papers(c, limit, enumeration)]
    /\ UNCHANGED <<accounts, db, storage, session, inflight>>

\* The scoring functions over a database drawn from ScorePaperIds papers, the
\* registered authors' profiles and the company's interests.
InitScore ==
    \E f1 \in ScoreFields, f2 \in ScoreFields \ {"bio,ml"},
       y1 \in ScoreYears, y2 \in ScoreYears \ {40},
       ri \in ScoreInterests,
       s1 \in ScoreSubjects, s2 \in ScoreSubjects \ {"ai ml"},
       st \in [ScorePaperIds -> PaperStatus],
       l1 \in {{}, {"a1"}, {"a1", "a2"}}, l2 \in {{"a2"}, {"a1", "a2"}},
       links \in SUBSET ScorePaperIds :
        /\ st[1] = "published"
        /\ \A p \in links : st[p] = "published"
        /\ users = ("a1" :> User(f1, y1)) @@ ("a2" :> User(f2, y2))
        /\ companies = [c \in Companies |-> Company(ri)]
        /\ papers = [p \in ScorePaperIds |->
               [Paper("T1", IF p = 1 THEN s1 ELSE s2, upload_paper_pdf(p),
                      IF p = 1 THEN "a1" ELSE "a2") EXCEPT !.status = st[p]]]
        /\ collabs = {<<1, a>> : a \in l1} \cup {<<2, a>> : a \in l2}
        /\ interests = [k \in {<<p, "c1">> : p \in links} |-> PaperInterest]
        /\ reviews = EmptyBag
        /\ storage = {upload_paper_pdf(p) : p \in ScorePaperIds}
        /\ session = [user_id |-> "c1", user_type |-> "company"]
        /\ inflight = [w \in 1..MaxInFlight |-> Idle]
        /\ resp = [op |-> "none", paper |-> 0, msg |-> "none"]

NextScore ==
    \/ \E p \in ScorePaperIds, c \in Companies : CalculateRelevanceScore(p, c)
    \/ \E c \in Companies, limit \in 0..MaxLimit,
          enumeration \in Enumerations(DOMAIN papers) :
           GetRecommendedPapers(c, limit, enumeration)

SpecScore == InitScore /\ [][NextScore]_vars

\* A paper page shows the business score (view_paper, papers.py 510); one call
\* per database, as for the relevance score.
CalculateBusinessRelevanceScore(p) ==
    /\ resp.op = "none"
    /\ resp' = [op |-> "calculate_business_relevance_score", paper |-> p,
                msg |-> "scored",
                score |-> calculate_business_relevance_score(interests, p)]
    /\ UNCHANGED <<accounts, db, storage, session, inflight>>

\* The business score over a database in which up to MaxInterested companies
\* hold an interest link on paper 1, some of them flagged business-critical, and
\* the first company may hold a flagged link on paper 2.
InitBusiness ==
    \E n \in 0..MaxInterested, other \in BOOLEAN :
      \E k \in 0..n :
        /\ users = [a \in Authors |-> User("ml", 0)]
        /\ companies = [i \in {InterestedIds[j] : j \in 1..(MaxInterested + 1)}
                           |-> Company("ml")]
        /\ papers = [p \in 1..2 |->
               [Paper("T1", NULL, upload_paper_pdf(p), "a1")
                   EXCEPT !.status = "published"]]
        /\ collabs = {<<1, "a1">>, <<2, "a1">>}
        /\ interests =
               [key \in {<<1, InterestedIds[j]>> : j \in 1..n}
                         \cup (IF other THEN {<<2, "c1">>} ELSE {}) |->
                   [PaperInterest EXCEPT !.is_business_critical =
                       \/ key[1] = 2
                       \/ \E j \in 1..k : key[2] = InterestedIds[j]]]
        /\ reviews = EmptyBag
        /\ storage = {upload_paper_pdf(p) : p \in 1..2}
        /\ session = [user_id |-> "c1", user_type |-> "company"]
        /\ inflight = [w \in 1..MaxInFlight |-> Idle]
        /\ resp = [op |-> "none", paper |-> 0, msg |-> "none"]

NextBusiness == \E p \in 1..2 : CalculateBusinessRelevanceScore(p)

SpecBusiness == InitBusiness /\ [][NextBusiness]_vars

\* The handlers that decide what the reviews table holds, with two submissions
\* allowed between their read of the existing review and their insert.
InitReviews == InitWith(RaceInFlight)

NextReviews ==
    \/ \E u \in Authors \cup Companies : Login(u, TRUE)
    \/ \E t \in CreateTitles, s \in Subjects \cup {NULL} :
           CreatePaper(t, s, "uploaded")
    \/ \E w \in Slots : CreatePaperCollaborator(w, TRUE)
    \/ \E p \in PaperIds : PublishPaper(p)
    \/ \E p \in PaperIds, e \in Authors : AddCollaborator(p, e)
    \/ \E p \in PaperIds, r \in RatingInputs : SubmitReview(p, r)
    \/ \E w \in Slots : SubmitReviewInsert(w)

SpecReviews == InitReviews /\ [][NextReviews]_vars

\* download_paper requests raced on one published paper with a file: each
\* request reads the paper and later runs its increment, in any interleaving.
InitDownloads ==
    /\ InitAccounts
    /\ papers = (1 :> [Paper("T1", NULL, upload_paper_pdf(1), "a1")
                          EXCEPT !.status = "published"])
    /\ collabs = {<<1, "a1">>}
    /\ interests = [k \in {} |-> NULL]
    /\ reviews = EmptyBag
    /\ storage = {upload_paper_pdf(1)}
    /\ session = NoSession
    /\ inflight = [w \in 1..MaxRacedDownloads |-> Idle]
    /\ resp = [op |-> "none", paper |-> 0, msg |-> "none"]

NextDownloads ==
    \/ \E u \in Authors \cup Companies : Login(u, TRUE)
    \/ \E p \in DOMAIN papers : DownloadPaperRead(p)
    \/ \E w \in Slots, incrementOk, storageOk \in BOOLEAN :
           DownloadPaperIncrement(w, incrementOk, storageOk)

SpecDownloads == InitDownloads /\ [][NextDownloads]_vars

(* ------------------------------------------------------------------ *)
(* Properties                                                          *)
(* ------------------------------------------------------------------ *)

\* The authors holding a collaborator link on paper p in the table c.
LinksIn(c, p) == {u \in Authors : <<p, u>> \in c}

\* The session is an author's and that author holds a link on p.
ActorIsCollaborator(p) ==
    session.user_type = "author" /\ IsCollaborator(p, session.user_id)

\* C1: in every reachable state, the creator of every persisted paper holds a
\* collaborator link on it (also between create_paper's two commits and when the
\* second one fails).
CreatorIsCollaborator ==
    \A p \in DOMAIN papers : IsCollaborator(p, papers[p].created_by)

\* C1 witness: create_paper has ended with its second commit refused, and the
\* paper it left behind has a creator without a collaborator link.
CreatorLinkMissing ==
    /\ resp.op = "create_paper"
    /\ resp.msg = "error"
    /\ PaperExists(resp.paper)
    /\ IdleSlots = Slots
    /\ ~IsCollaborator(resp.paper, papers[resp.paper].created_by)

\* C2: a remove_collaborator request whose target is the paper's creator is
\* refused and changes no persisted state, whoever the actor is.
RemoveCreatorRefused ==
    [][(resp'.op = "remove_collaborator")
       => \A p \in PaperIds, t \in TargetInputs :
             (RemoveCollaborator(p, t) /\ PaperExists(p) /\ papers[p].created_by = t)
             => /\ UNCHANGED <<db, storage>>
                /\ resp'.msg \in {"please_log_in", "authors_only",
                                  "not_collaborator", "cannot_remove_creator"}]_vars

\* C2 witness: a collaborator other than the creator asked to remove the creator
\* and was refused.
RemoveCreatorWitness ==
    /\ resp.op = "remove_collaborator"
    /\ resp.msg = "cannot_remove_creator"
    /\ PaperExists(resp.paper)
    /\ session.user_id # papers[resp.paper].created_by
    /\ IsCollaborator(resp.paper, papers[resp.paper].created_by)

\* C3: a paper is created as draft, no paper row disappears, and a published
\* paper stays published across every step.
StatusOneWay ==
    [][\A p \in PaperIds :
          /\ PaperExists(p) => p \in DOMAIN papers'
          /\ (p \in DOMAIN papers' /\ ~PaperExists(p)) => papers'[p].status = "draft"
          /\ (PaperExists(p) /\ papers[p].status = "published")
             => papers'[p].status = "published"]_vars

\* C3 witness: a published paper has just been edited by update_paper and is
\* still published.
PublishedThenEdited ==
    /\ resp.op = "update_paper"
    /\ resp.msg = "version_uploaded"
    /\ PaperExists(resp.paper)
    /\ papers[resp.paper].status = "published"

\* C4: a collaborator publishing an already published paper leaves the paper as
\* it is (status published) and gets the success flash.
RepublishIsSuccess ==
    [][(/\ resp'.op = "publish_paper"
        /\ ActorIsCollaborator(resp'.paper)
        /\ papers[resp'.paper].status = "published")
       => /\ papers' = papers
          /\ papers'[resp'.paper].status = "published"
          /\ resp'.msg = "paper_published"]_vars

\* C4 witness: publish_paper has just succeeded on a paper that already carries
\* an interest link, which only a published paper can get.
RepublishWitness ==
    /\ resp.op = "publish_paper"
    /\ resp.msg = "paper_published"
    /\ \E c \in Companies : HasInterest(resp.paper, c)

\* canViewPaper of the access-control design: a collaborating author, or a
\* company on a published paper.
CanViewPaper(p) ==
    \/ ActorIsCollaborator(p)
    \/ session.user_type = "company" /\ papers[p].status = "published"

\* The response shows the paper (view) or went on to serve its file (download).
AccessGranted(r) ==
    \/ r.op = "view_paper" /\ r.msg = "rendered"
    \/ r.op = "download_paper"
       /\ r.msg \in {"file_sent", "download_error", "file_not_found"}

\* C5: view_paper and download_paper let the actor through to an existing paper
\* exactly when canViewPaper holds of the session and the paper.
AccessMatchesCanView ==
    [][(resp'.op \in {"view_paper", "download_paper"} /\ PaperExists(resp'.paper))
       => (AccessGranted(resp') <=> CanViewPaper(resp'.paper))]_vars

\* C5 witness: a company has just been sent the file of a published paper.
CompanyDownloadWitness ==
    /\ resp.op = "download_paper"
    /\ resp.msg = "file_sent"
    /\ session.user_type = "company"
    /\ papers[resp.paper].status = "published"
    /\ papers[resp.paper].download_count > 0

\* C6: update_paper and publish_paper leave the papers table alone unless the
\* actor is an author holding a collaborator link on the paper, and for such an
\* actor they apply what was asked (the title, the subject, the file path of a
\* stored upload, the published status).
EditRequiresCollaborator ==
    [][(resp'.op \in {"update_paper", "publish_paper"})
       => LET p == resp'.paper
          IN  /\ ~ActorIsCollaborator(p) => papers' = papers
              /\ (ActorIsCollaborator(p) /\ resp'.op = "publish_paper")
                 => papers'[p].status = "published"
              /\ (ActorIsCollaborator(p) /\ resp'.op = "update_paper")
                 => \A t \in UpdateTitles, s \in Subjects \cup {"", "absent"},
                       pdf \in PdfInputs :
                       \/ /\ t # NULL => papers'[p].title = t
                          /\ s = "" => papers'[p].subject = NULL
                          /\ s \in Subjects => papers'[p].subject = s
                          /\ pdf = "uploaded"
                             => papers'[p].file_path = upload_paper_pdf(p)
                       \/ ~UpdatePaper(p, t, s, pdf)]_vars

\* C6 witness: an author without a link on an existing paper asked to update it
\* and was refused.
NonCollaboratorEditRefused ==
    /\ resp.op = "update_paper"
    /\ resp.msg = "not_collaborator"
    /\ PaperExists(resp.paper)
    /\ session.user_type = "author"
    /\ ~IsCollaborator(resp.paper, session.user_id)

\* C7 as stated: a paper's collaborator links change only by an
\* add_collaborator / remove_collaborator request on that paper from an author
\* holding a link on it at that moment; a removal takes only links that exist
\* and never the creator's.
CollaboratorChangesByCollaborator ==
    [][\A p \in PaperIds :
          LinksIn(collabs', p) # LinksIn(collabs, p)
          => /\ resp'.op \in {"add_collaborator", "remove_collaborator"}
             /\ resp'.paper = p
             /\ ActorIsCollaborator(p)
             /\ resp'.op = "remove_collaborator"
                => /\ LinksIn(collabs', p) \subseteq LinksIn(collabs, p)
                   /\ papers[p].created_by \in LinksIn(collabs, p)
                      => papers[p].created_by \in LinksIn(collabs', p)]_vars

\* C7 amended: a paper's collaborator links change only by create_paper adding
\* the creator's own link, or by an add_collaborator / remove_collaborator
\* request on that paper from an author holding a link on it at that moment; a
\* removal takes only links that exist and never the creator's.
CollaboratorChangesAuthorised ==
    [][\A p \in PaperIds :
          LinksIn(collabs', p) # LinksIn(collabs, p)
          => \/ /\ resp'.op = "create_paper" /\ resp'.paper = p
                /\ PaperExists(p)
                /\ LinksIn(collabs', p) =
                       LinksIn(collabs, p) \cup {papers[p].created_by}
             \/ /\ resp'.op \in {"add_collaborator", "remove_collaborator"}
                /\ resp'.paper = p
                /\ ActorIsCollaborator(p)
                /\ resp'.op = "remove_collaborator"
                   => /\ LinksIn(collabs', p) \subseteq LinksIn(collabs, p)
                      /\ papers[p].created_by \in LinksIn(collabs, p)
                         => papers[p].created_by \in LinksIn(collabs', p)]_vars

\* C7 witness: a collaborator has just removed another collaborator.
CollaboratorRemovedWitness ==
    /\ resp.op = "remove_collaborator"
    /\ resp.msg = "collaborator_removed"
    /\ IsCollaborator(resp.paper, session.user_id)

\* canReview of the access-control design, read at the time of the request.
CanReview(p) ==
    /\ session.user_id # NULL
    /\ PaperExists(p)
    /\ papers[p].status = "published"
    /\ ~ExistingReview(p, session.user_type, session.user_id)
    /\ ~ActorIsCollaborator(p)

ValidRating(r) == r # <<>> /\ r[1] >= 1 /\ r[1] <= 5

\* C8: a submit_review request with a valid rating is accepted exactly when the
\* paper exists and is published, the actor has no review on it and is not a
\* collaborating author; a refusal inserts nothing; the reviews table changes
\* only by an accepted request inserting its one review, which it does exactly
\* when the reviewer still has no review on the paper.
ReviewInsertedWhenAllowed ==
    [][/\ (resp'.op = "submit_review")
          => /\ \A p \in PaperIds, r \in RatingInputs :
                   (SubmitReview(p, r) /\ ValidRating(r))
                   => /\ (resp'.msg = "pending") <=> CanReview(p)
                      /\ UNCHANGED db
             /\ \A w \in Slots :
                   SubmitReviewInsert(w)
                   => LET q == inflight[w]
                      IN  (reviews' # reviews)
                          <=> ~ExistingReview(q.paper_id, q.user_type, q.user_id)
       /\ reviews' # reviews
          => \E w \in Slots :
                /\ inflight[w].pc = "submit_review_insert"
                /\ inflight'[w] = Idle
                /\ papers[inflight[w].paper_id].status = "published"
                /\ reviews' = reviews (+) SetToBag({
                       Review(inflight[w].paper_id, inflight[w].user_type,
                              inflight[w].user_id, inflight[w].rating)})]_vars

\* C8 witness: the review of an author without a link on the paper has just been
\* stored.
AuthorReviewStored ==
    /\ resp.op = "submit_review"
    /\ resp.msg = "review_submitted"
    /\ \E q \in BagToSet(reviews) :
          /\ q.paper_id = resp.paper
          /\ q.user_id \in Authors
          /\ ~IsCollaborator(resp.paper, q.user_id)

\* C9: no two persisted reviews share the paper and the author, or the paper and
\* the company.
OneReviewPerReviewer ==
    \A q \in BagToSet(reviews) :
        /\ CopiesIn(q, reviews) = 1
        /\ \A o \in BagToSet(reviews) :
              (o # q /\ o.paper_id = q.paper_id)
              => /\ ~(q.user_id # NULL /\ o.user_id = q.user_id)
                 /\ ~(q.company_id # NULL /\ o.company_id = q.company_id)

\* C9 witness: of two submissions by one reviewer that both passed the read of
\* the existing review, one is stored and the other has just been refused.
RacingReviewRefused ==
    /\ resp.op = "submit_review"
    /\ resp.msg = "error"
    /\ \E q \in BagToSet(reviews) : q.paper_id = resp.paper

\* C10: every interest link references an existing paper whose status is
\* published.
InterestsOnPublished ==
    \A k \in DOMAIN interests :
        PaperExists(k[1]) /\ papers[k[1]].status = "published"

\* C10 witness: a company has just added an interest link.
InterestAddedWitness ==
    /\ resp.op = "toggle_interest"
    /\ resp.msg = "interest_added"
    /\ \E c \in Companies : HasInterest(resp.paper, c)

AuthorOnlyOps ==
    {"create_paper", "update_paper", "publish_paper",
     "add_collaborator", "remove_collaborator"}

CompanyOnlyOps ==
    {"toggle_interest", "toggle_business_critical", "update_research_interests",
     "recommended_papers"}

LoginOnlyOps == {"view_paper", "download_paper", "submit_review"}

\* The step is a request arriving, not the second half of one that arrived
\* earlier (whose session is the one it arrived in).
RequestArrives == \A w \in Slots : inflight[w] = Idle \/ inflight'[w] = inflight[w]

\* C11: an author-only operation requested in a session that is not an author's,
\* a company-only operation requested in a session that is not a company's, and
\* any guarded operation requested without a logged-in session, change no
\* persisted state (and start no request).
RoleGating ==
    [][(/\ RequestArrives
        /\ \/ resp'.op \in AuthorOnlyOps /\ session.user_type # "author"
           \/ resp'.op \in CompanyOnlyOps /\ session.user_type # "company"
           \/ /\ resp'.op \in AuthorOnlyOps \cup CompanyOnlyOps \cup LoginOnlyOps
              /\ session.user_id = NULL)
       => UNCHANGED <<accounts, db, storage, session, inflight>>]_vars

\* C11 witness: after a logout, an update of an existing paper was asked for
\* and sent to the login page.
GuardedAfterLogout ==
    /\ resp.op = "update_paper"
    /\ resp.msg = "please_log_in"
    /\ PaperExists(resp.paper)
    /\ session = NoSession

\* calculate_relevance_score has just been applied to resp.paper and resp.company.
Scored == resp.op = "calculate_relevance_score"

\* get_recommended_papers has just been applied.
Listed == resp.op = "get_recommended_papers"

\* The company has declared interests and the paper exists: the function gets
\* as far as the base score.
ReachesBase(p, c) == Truthy(companies[c].research_interests) /\ PaperExists(p)

\* The company holds an interest link on a paper other than p that shares a
\* collaborator with p.
FollowsAnAuthorOf(p, c) ==
    \E q \in DOMAIN papers \ {p} :
        /\ HasInterest(q, c)
        /\ \E a \in Authors : IsCollaborator(p, a) /\ IsCollaborator(q, a)

\* C12: every relevance score lies between 0.0 and 1.0, and the boosted maximum
\* base (0.90 x 1.30) comes out as exactly 1.0.
ScoreInUnitInterval ==
    Scored
    => /\ resp.score >= 0 /\ resp.score <= ScoreUnit
       /\ (/\ ReachesBase(resp.paper, resp.company)
           /\ base_score(users, resp.paper, resp.company) = (ScoreUnit * 90) \div 100
           /\ FollowsAnAuthorOf(resp.paper, resp.company))
          => resp.score = ScoreUnit

\* C12 witness: the maximum base of 0.90 was boosted and came out as 1.0.
BoostedMaximumCapped ==
    /\ Scored
    /\ ReachesBase(resp.paper, resp.company)
    /\ base_score(users, resp.paper, resp.company) = (ScoreUnit * 90) \div 100
    /\ FollowsAnAuthorOf(resp.paper, resp.company)
    /\ resp.score = ScoreUnit

\* C13: for a company without declared research interests every paper scores
\* 0.0 and the recommendations are empty.
NoInterestsScoreZero ==
    \A c \in Companies :
        ~Truthy(companies[c].research_interests)
        => /\ (Scored /\ resp.company = c) => resp.score = 0
           /\ (Listed /\ resp.company = c) => resp.list = <<>>
           /\ \A p \in DOMAIN papers : calculate_relevance_score(p, c) = 0

\* C13 witness: a company without interests was scored 0.0 on a paper with a
\* subject, an experienced author with a field, and a followed co-author.
NoInterestsWitness ==
    /\ Scored
    /\ resp.score = 0
    /\ ~Truthy(companies[resp.company].research_interests)
    /\ PaperExists(resp.paper)
    /\ Truthy(papers[resp.paper].subject)
    /\ \E a \in Authors :
          /\ IsCollaborator(resp.paper, a)
          /\ Truthy(users[a].field_of_research)
          /\ users[a].years_of_experience > 0
    /\ FollowsAnAuthorOf(resp.paper, resp.company)

\* C14: a paper whose base score is 0.0 scores 0.0, also when the company holds
\* an interest link on another paper that shares an author with it.
ZeroBaseStaysZero ==
    (/\ Scored
     /\ ReachesBase(resp.paper, resp.company)
     /\ base_score(users, resp.paper, resp.company) = 0)
    => resp.score = 0

\* C14 witness: a zero base was scored 0.0 for a company that follows one of
\* the paper's authors.
ZeroBaseBoostWitness ==
    /\ Scored
    /\ ReachesBase(resp.paper, resp.company)
    /\ base_score(users, resp.paper, resp.company) = 0
    /\ FollowsAnAuthorOf(resp.paper, resp.company)
    /\ resp.score = 0

\* The paper has no subject and none of its authors has a field_of_research.
NoSubjectNoField(p) ==
    /\ ~Truthy(papers[p].subject)
    /\ \A a \in AuthorsOf(users, p) : ~Truthy(users[a].field_of_research)

\* None of the paper's authors has any experience.
NoExperience(p) == \A a \in AuthorsOf(users, p) : users[a].years_of_experience = 0

\* C15 as stated: a paper with no subject whose authors all have no
\* field_of_research scores 0.0 and is in no recommendation list, whatever the
\* authors' experience.
NoSubjectNoFieldScoresZero ==
    /\ (Scored /\ PaperExists(resp.paper) /\ NoSubjectNoField(resp.paper))
       => resp.score = 0
    /\ Listed
       => \A i \in DOMAIN resp.list : ~NoSubjectNoField(resp.list[i].paper)

\* C15 amended: a paper with no subject whose authors all have no
\* field_of_research and no years of experience scores 0.0 and is in no
\* recommendation list.
NoSubjectNoFieldNoExperienceScoresZero ==
    /\ (/\ Scored /\ PaperExists(resp.paper)
        /\ NoSubjectNoField(resp.paper) /\ NoExperience(resp.paper))
       => resp.score = 0
    /\ Listed
       => \A i \in DOMAIN resp.list :
             ~(NoSubjectNoField(resp.list[i].paper) /\ NoExperience(resp.list[i].paper))

\* C15 witness: such a paper, with authors, was scored 0.0 for a company that has
\* interests and follows one of its authors.
NoSubjectNoFieldWitness ==
    /\ Scored
    /\ ReachesBase(resp.paper, resp.company)
    /\ AuthorsOf(users, resp.paper) # {}
    /\ NoSubjectNoField(resp.paper) /\ NoExperience(resp.paper)
    /\ FollowsAnAuthorOf(resp.paper, resp.company)
    /\ resp.score = 0

\* The number of the paper's authors in the users table t whose field matches
\* an interest of the company.
MatchingAuthors(t, p, c) ==
    Cardinality({a \in AuthorsOf(t, p) :
        FieldMatches(t[a], Tags(companies[c].research_interests))})

\* The users tables that differ from the present one in the fields of research only.
FieldVariants ==
    {[a \in Authors |-> User(f[a], users[a].years_of_experience)] :
        f \in [Authors -> ScoreFields]}

\* C16: with the paper, its authors, their experience, the company and the
\* links fixed, a users table in which at least as many of the paper's authors
\* have a matching field gives at least the same score.
ScoreMonotoneInMatches ==
    (Scored /\ ReachesBase(resp.paper, resp.company))
    => \A t \in FieldVariants :
          MatchingAuthors(t, resp.paper, resp.company)
              >= MatchingAuthors(users, resp.paper, resp.company)
          => relevance_score(t, resp.paper, resp.company) >= resp.score

\* C16 witness: the paper was scored with one of its two authors matching, below
\* the cap, and with both matching the score is strictly higher.
MoreMatchesWitness ==
    /\ Scored
    /\ ReachesBase(resp.paper, resp.company)
    /\ Cardinality(AuthorsOf(users, resp.paper)) = 2
    /\ MatchingAuthors(users, resp.paper, resp.company) = 1
    /\ \E t \in FieldVariants :
          /\ MatchingAuthors(t, resp.paper, resp.company) = 2
          /\ relevance_score(t, resp.paper, resp.company) > resp.score

\* C17: the score is min(1.0, 1.30 x base) when the company holds an interest
\* link on another paper that shares a collaborator with the scored one, and
\* min(1.0, base) otherwise; the link on the scored paper itself does not count.
BoostExactlyWhenFollowing ==
    (Scored /\ ReachesBase(resp.paper, resp.company))
    => LET base == base_score(users, resp.paper, resp.company)
       IN  resp.score =
              IF FollowsAnAuthorOf(resp.paper, resp.company)
              THEN Min(ScoreUnit, (base * 13) \div 10)
              ELSE Min(ScoreUnit, base)

\* C17 witness: the company's only interest link is the one on the scored paper,
\* which has authors and a positive base, and the score is the base.
OwnLinkNoBoost ==
    /\ Scored
    /\ ReachesBase(resp.paper, resp.company)
    /\ {k \in DOMAIN interests : k[2] = resp.company}
           = {<<resp.paper, resp.company>>}
    /\ AuthorsOf(users, resp.paper) # {}
    /\ resp.score > 0
    /\ resp.score = base_score(users, resp.paper, resp.company)

\* Where the paper stands in the enumeration e.
PositionIn(e, p) == CHOOSE i \in DOMAIN e : e[i] = p

\* Entry x ranks at or above paper q: a higher score, or the same score and not
\* behind q in the enumeration.
RanksAtOrAbove(x, q, c, e) ==
    \/ x.score > calculate_relevance_score(q, c)
    \/ /\ x.score = calculate_relevance_score(q, c)
       /\ PositionIn(e, x.paper) <= PositionIn(e, q)

\* C18: the recommendations hold at most limit entries, each a different
\* published paper with its strictly positive score, in non-increasing order of
\* score with equal scores in the order of the enumeration; a published paper
\* with a positive score is left out only when limit entries ranking at or above
\* it are returned.
RecommendationsRanked ==
    Listed
    => LET list == resp.list
           c == resp.company
           e == resp.enumeration
           listed == {list[i].paper : i \in DOMAIN list}
       IN  /\ Len(list) <= resp.limit
           /\ \A i \in DOMAIN list :
                 /\ PaperExists(list[i].paper)
                 /\ papers[list[i].paper].status = "published"
                 /\ list[i].score = calculate_relevance_score(list[i].paper, c)
                 /\ list[i].score > 0
           /\ \A i, j \in DOMAIN list :
                 i < j => /\ list[i].paper # list[j].paper
                          /\ list[i].score >= list[j].score
                          /\ list[i].score = list[j].score
                             => PositionIn(e, list[i].paper)
                                    < PositionIn(e, list[j].paper)
           /\ \A q \in DOMAIN papers \ listed :
                 (papers[q].status = "published"
                  /\ calculate_relevance_score(q, c) > 0)
                 => /\ Len(list) = resp.limit
                    /\ \A i \in DOMAIN list : RanksAtOrAbove(list[i], q, c, e)

\* C18 witness: two published papers have the same positive score, the one the
\* enumeration hands over first is returned and the limit leaves the other out.
TieCutByLimit ==
    /\ Listed
    /\ resp.limit = 1
    /\ Len(resp.list) = 1
    /\ \E q \in DOMAIN papers \ {resp.list[1].paper} :
          /\ papers[q].status = "published"
          /\ calculate_relevance_score(q, resp.company) = resp.list[1].score
          /\ PositionIn(resp.enumeration, resp.list[1].paper) = 1
          /\ resp.list[1].paper > q

\* The interest links on paper p, and those of them flagged business-critical.
InterestedIn(p) == {k \in DOMAIN interests : k[1] = p}
CriticalFor(p) == {k \in InterestedIn(p) : interests[k].is_business_critical}

\* C19: the business score (in hundredths) lies between 0.0 and 1.0, is
\* min(0.4, interested/10 x 0.4) + min(0.6, critical/3 x 0.6), and is exactly 1.0
\* from 10 interested companies and 3 flags on.
BusinessScoreSaturates ==
    resp.op = "calculate_business_relevance_score"
    => LET interested == Cardinality(InterestedIn(resp.paper))
           critical == Cardinality(CriticalFor(resp.paper))
       IN  /\ resp.score >= 0 /\ resp.score <= 100
           /\ resp.score = Min(40, (interested * 40) \div 10)
                               + Min(60, (critical * 60) \div 3)
           /\ (interested >= 10 /\ critical >= 3) => resp.score = 100

\* C19 witness: with more than 10 interested companies and more than 3 flags the
\* score is 1.0.
BusinessScoreSaturated ==
    /\ resp.op = "calculate_business_relevance_score"
    /\ Cardinality(InterestedIn(resp.paper)) > 10
    /\ Cardinality(CriticalFor(resp.paper)) > 3
    /\ resp.score = 100

\* C20: a toggle_business_critical by a company holding an interest link on the
\* paper negates that link's flag and stores in it the business score of the
\* paper computed over the links as they are after the toggle, and changes
\* nothing else; a toggle by a company without a link on the paper changes no
\* state.
ToggleStoresFreshScore ==
    [][(resp'.op = "toggle_business_critical" /\ session.user_type = "company")
       => LET p == resp'.paper
              key == <<p, session.user_id>>
          IN  /\ UNCHANGED <<accounts, papers, collabs, reviews, storage,
                              session, inflight>>
              /\ IF HasInterest(p, session.user_id)
                 THEN /\ DOMAIN interests' = DOMAIN interests
                      /\ interests'[key].is_business_critical
                             = ~interests[key].is_business_critical
                      /\ interests'[key].business_relevance_score
                             = calculate_business_relevance_score(interests', p)
                      /\ interests'[key].relevance_score
                             = interests[key].relevance_score
                      /\ \A k \in DOMAIN interests \ {key} :
                             interests'[k] = interests[k]
                      /\ resp'.msg \in {"marked_critical", "unmarked_critical"}
                 ELSE /\ interests' = interests
                      /\ resp'.msg = "must_mark_interest"]_vars

\* C20 witness: the company has just taken its flag back, and the stored score
\* is the one of a paper with one interested company and no flag.
FlagTakenBack ==
    /\ resp.op = "toggle_business_critical"
    /\ resp.msg = "unmarked_critical"
    /\ HasInterest(resp.paper, session.user_id)
    /\ ~interests[<<resp.paper, session.user_id>>].is_business_critical
    /\ interests[<<resp.paper, session.user_id>>].business_relevance_score = 4

\* C21 as stated: after a successful toggle_business_critical by company C on
\* paper P the link's stored relevance_score equals
\* calculate_relevance_score(P, C) (the toggle changes nothing the score reads,
\* so it is the same before and after); view_paper and recommended_papers never
\* write the interest links.
ToggleStoresRelevanceScore ==
    [][/\ (resp'.op = "toggle_business_critical"
           /\ resp'.msg \in {"marked_critical", "unmarked_critical"})
          => interests'[<<resp'.paper, session.user_id>>].relevance_score
                 = calculate_relevance_score(resp'.paper, session.user_id)
       /\ resp'.op \in {"view_paper", "recommended_papers"}
          => interests' = interests]_vars

\* C21 amended: no operation writes the stored relevance_score of an interest
\* link: it keeps its value across every step, a successful
\* toggle_business_critical included, and a new link starts with the default
\* 0.0; view_paper and recommended_papers never write the interest links.
RelevanceScoreNeverWritten ==
    [][/\ \A k \in DOMAIN interests' :
             interests'[k].relevance_score =
                 IF k \in DOMAIN interests THEN interests[k].relevance_score ELSE 0
       /\ resp'.op \in {"view_paper", "recommended_papers"}
          => interests' = interests]_vars

\* C21 witness: the company has just flagged a paper whose relevance score for
\* it is positive, and the link's stored relevance_score is still 0.0.
StoredRelevanceStale ==
    /\ resp.op = "toggle_business_critical"
    /\ resp.msg = "marked_critical"
    /\ HasInterest(resp.paper, session.user_id)
    /\ calculate_relevance_score(resp.paper, session.user_id) > 0
    /\ interests[<<resp.paper, session.user_id>>].relevance_score = 0

\* C22: a paper's download_count never decreases and changes only by +1, in a
\* download_paper request on that paper made by a company while the paper is
\* published and has a file; downloads by authors and every other operation
\* leave it unchanged.
DownloadCountByCompanyOnly ==
    [][\A p \in DOMAIN papers :
          /\ p \in DOMAIN papers'
          /\ papers'[p].download_count >= papers[p].download_count
          /\ papers'[p].download_count # papers[p].download_count
             => /\ papers'[p].download_count = papers[p].download_count + 1
                /\ resp'.op = "download_paper"
                /\ resp'.paper = p
                /\ session.user_type = "company"
                /\ papers[p].status = "published"
                /\ papers[p].file_path # <<>>]_vars

\* C22 witness: a company's download of a published paper has just been
\* counted, although the store then failed to hand over the file.
CompanyDownloadCounted ==
    /\ resp.op = "download_paper"
    /\ resp.msg = "download_error"
    /\ session.user_type = "company"
    /\ papers[resp.paper].status = "published"
    /\ papers[resp.paper].file_path # <<>>
    /\ papers[resp.paper].download_count = 1

\* The request in slot w passed its read of the existing review, the same
\* reviewer's other request has inserted since, and w's insert is the step taken.
RacedInsert(w) ==
    /\ inflight[w].pc = "submit_review_insert"
    /\ inflight'[w] = Idle
    /\ ExistingReview(inflight[w].paper_id, inflight[w].user_type, inflight[w].user_id)

\* C23 as stated: of two submit_review requests by one reviewer on one paper
\* that both passed the existing-review check before either inserted, the
\* second insert is persisted too, leaving two reviews of that reviewer.
RacedReviewsBothPersisted ==
    [][\A w \in Slots :
          RacedInsert(w)
          => reviews' = reviews (+) SetToBag({
                 Review(inflight[w].paper_id, inflight[w].user_type,
                        inflight[w].user_id, inflight[w].rating)})]_vars

\* C23 amended: of two such requests the second insert is refused by the
\* table's unique constraint: the reviews table stays as it is, with the one
\* review of that reviewer, and the request ends with an error.
RacedReviewRolledBack ==
    [][\A w \in Slots :
          RacedInsert(w)
          => /\ reviews' = reviews
             /\ resp'.op = "submit_review" /\ resp'.msg = "error"
             /\ \A q \in BagToSet(reviews') : CopiesIn(q, reviews') = 1]_vars

\* C23 witness: a company raced two submissions on one paper; both have ended,
\* the second with an error, and the table holds one review of the company.
CompanyRaceOneReview ==
    /\ resp.op = "submit_review"
    /\ resp.msg = "error"
    /\ IdleSlots = Slots
    /\ session.user_type = "company"
    /\ ReviewCount = 1
    /\ \E q \in BagToSet(reviews) :
          q.paper_id = resp.paper /\ q.company_id = session.user_id

\* C24: when a collaborator's update_paper carries a new title (and possibly a
\* subject) together with a PDF and the upload fails, the title and the subject
\* asked for are persisted, file_path and the store keep what they had, and
\* the request ends with the error.
FailedUploadKeepsTitle ==
    [][(resp'.op = "update_paper" /\ resp'.msg \notin {"please_log_in", "authors_only"})
       => \A t \in UpdateTitles \ {NULL}, s \in Subjects \cup {"", "absent"} :
             LET p == resp'.paper
             IN  (UpdatePaper(p, t, s, "upload_fails") /\ ActorIsCollaborator(p))
                 => /\ papers'[p].title = t
                    /\ s = "" => papers'[p].subject = NULL
                    /\ s \in Subjects => papers'[p].subject = s
                    /\ s = "absent" => papers'[p].subject = papers[p].subject
                    /\ papers'[p].file_path = papers[p].file_path
                    /\ storage' = storage
                    /\ resp'.msg = "error"]_vars

\* C24 witness: an update has just ended with the upload's error, and the paper
\* carries the new title and cleared subject next to the file of its creation.
TitleKeptAfterFailedUpload ==
    /\ resp.op = "update_paper"
    /\ resp.msg = "error"
    /\ PaperExists(resp.paper)
    /\ papers[resp.paper].title = "T2"
    /\ papers[resp.paper].subject = NULL
    /\ papers[resp.paper].file_path = upload_paper_pdf(resp.paper)
    /\ papers[resp.paper].file_path \in storage

\* C25: every persisted review has a rating in 1..5, and a submit_review request
\* whose rating is missing, not an integer, zero or out of range changes no
\* persisted state and starts no insert; in a logged-in session it is refused
\* for its rating whatever the paper and the actor's relation to it.
InvalidRatingRejectedFirst ==
    [][/\ \A q \in BagToSet(reviews') : q.rating \in 1..5
       /\ (resp'.op = "submit_review")
          => \A r \in RatingInputs :
                (SubmitReview(resp'.paper, r) /\ ~ValidRating(r))
                => /\ UNCHANGED <<accounts, db, storage, session, inflight>>
                   /\ session.user_id # NULL => resp'.msg = "invalid_rating"]_vars

\* C25 witness: an actor who has a stored review on a published paper sent a
\* second one with an invalid rating and was refused for the rating.
InvalidRatingBeforeDuplicate ==
    /\ resp.op = "submit_review"
    /\ resp.msg = "invalid_rating"
    /\ PaperExists(resp.paper)
    /\ ExistingReview(resp.paper, session.user_type, session.user_id)

\* C26: in every reachable state, no persisted review by an author is attached
\* to a paper on which that author holds a collaborator link.
NoReviewOfOwnPaper ==
    \A q \in BagToSet(reviews) :
        q.user_id # NULL => ~IsCollaborator(q.paper_id, q.user_id)

\* C26 witness: add_collaborator has just given a link on the paper to an
\* author whose review of that paper is stored.
ReviewerAddedAsCollaborator ==
    /\ resp.op = "add_collaborator"
    /\ resp.msg = "collaborator_added"
    /\ IdleSlots = Slots
    /\ \E q \in BagToSet(reviews) :
          /\ q.paper_id = resp.paper
          /\ q.user_id # NULL
          /\ q.user_id # session.user_id
          /\ IsCollaborator(resp.paper, q.user_id)

\* C27: a toggle_interest by a company on a published paper adds the company's
\* link when it is absent and deletes it when it is present, and touches no
\* other link, so that a second toggle restores the membership; a link added
\* this way carries the defaults (is_business_critical false, both stored scores
\* 0.0), whatever a link deleted before held.
ToggleInterestFlips ==
    [][(/\ resp'.op = "toggle_interest"
        /\ session.user_type = "company"
        /\ PaperExists(resp'.paper)
        /\ papers[resp'.paper].status = "published")
       => LET key == <<resp'.paper, session.user_id>>
          IN  /\ (key \in DOMAIN interests') <=> (key \notin DOMAIN interests)
              /\ \A k \in (DOMAIN interests \cup DOMAIN interests') \ {key} :
                     /\ k \in DOMAIN interests /\ k \in DOMAIN interests'
                     /\ interests'[k] = interests[k]
              /\ key \in DOMAIN interests'
                 => /\ ~interests'[key].is_business_critical
                    /\ interests'[key].relevance_score = 0
                    /\ interests'[key].business_relevance_score = 0
              /\ resp'.msg = IF key \in DOMAIN interests'
                             THEN "interest_added" ELSE "interest_removed"]_vars

\* C27 witness: the company has just added its link on a published paper, and
\* the link carries the defaults.
InterestLinkWithDefaults ==
    /\ resp.op = "toggle_interest"
    /\ resp.msg = "interest_added"
    /\ session.user_type = "company"
    /\ HasInterest(resp.paper, session.user_id)
    /\ interests[<<resp.paper, session.user_id>>] = PaperInterest
    /\ papers[resp.paper].status = "published"

\* The download_paper requests on p that have ended and were to be counted: made
\* by a company, with the increment statement succeeding.
CountedDownloads(p) ==
    {w \in Slots : /\ inflight[w].pc = "downloaded"
                   /\ inflight[w].paper_id = p
                   /\ inflight[w].counted}

\* C28: in any interleaving of download_paper requests on a published paper with
\* a file, the paper's download_count has grown (from 0) by exactly the number
\* of company requests whose increment statement has run and succeeded.
NoLostDownloadIncrement ==
    \A p \in DOMAIN papers :
        papers[p].download_count = Cardinality(CountedDownloads(p))

\* C28 witness: every raced request was a company's and has ended counted, two
\* of them had read the same count before either incremented, and the count
\* is the number of requests.
RacedDownloadsAllCounted ==
    /\ \A w \in Slots : inflight[w].pc = "downloaded" /\ inflight[w].counted
    /\ \E v, w \in Slots :
          v # w /\ inflight[v].download_count = inflight[w].download_count
    /\ \E p \in DOMAIN papers : papers[p].download_count = MaxRacedDownloads

\* The interest tags of the text that are not empty.
NonEmptyTags(text) == SelectSeq(Tags(text), LAMBDA t : t # <<>>)

\* C29: an interest tag that is empty after splitting and trimming never counts
\* as a match: the subject score and every author's field match are what they
\* are with the empty tags left out (nothing, when every tag is empty).
EmptyTagNeverMatches ==
    (Scored /\ ReachesBase(resp.paper, resp.company))
    => LET text == companies[resp.company].research_interests
       IN  /\ subject_score(resp.paper, Tags(text))
                  = subject_score(resp.paper, NonEmptyTags(text))
           /\ \A a \in AuthorsOf(users, resp.paper) :
                  FieldMatches(users[a], Tags(text))
                      <=> FieldMatches(users[a], NonEmptyTags(text))

\* C29 witness: the company's interests end in a comma, its one real tag matches
\* neither the paper's subject nor any author's field, and the paper was scored
\* with the full subject credit.
EmptyTagMatchedSubject ==
    /\ Scored
    /\ ReachesBase(resp.paper, resp.company)
    /\ Len(NonEmptyTags(companies[resp.company].research_interests))
           < Len(Tags(companies[resp.company].research_interests))
    /\ subject_score(resp.paper,
           NonEmptyTags(companies[resp.company].research_interests)) = 0
    /\ resp.score >= ScoreUnit \div 2
====
